---- MODULE Spec2Model ----
(***************************************************************************)
(* The embedding-index retrieval engine of rag-scheme-main.                *)
(*                                                                         *)
(* Two index owners live in one process and share the bundle directory     *)
(* "faiss_index": RAGSystem (rag.py, the object main.py calls rag_system)  *)
(* and FAISSHandler (utils/faiss_handler.py, the object routes.py calls    *)
(* faiss_handler).  The state is the fields of both objects and the five   *)
(* files of the directory.                                                 *)
(*                                                                         *)
(* Spec      : the stores and the bundle.  Every handler is one step: the  *)
(*             endpoints are `async def` with no await in their bodies, so *)
(*             the event loop runs each to completion.  Saves and loads    *)
(*             may fail at any file.                                       *)
(* SpecQuery : the endpoints of the service with every query request.      *)
(* SpecConc  : build_index and search called from two tasks, one step    *)
(*             per statement that reads or writes a field of the object    *)
(*             or a file.                                                  *)
(* SpecHttp  : POST /ingest and POST /query with their JSON bodies, as     *)
(*             the registered routes dispatch and validate them.           *)
(* SpecEmbed, SpecAdd, SpecNorm, SpecCreate, SpecChunk, SpecFilter :       *)
(*             create_embeddings, add_embeddings, create_documents,        *)
(*             create_index, chunk_text and _filter_schemes alone, each    *)
(*             applied to every bounded input.                             *)
(*                                                                         *)
(* Texts are numbers: 1..MaxText are document and query strings, 0 is a    *)
(* string that is empty after strip().  A vector is a tuple of integers    *)
(* with one non-zero component, for which the L2 norm is an integer.       *)
(***************************************************************************)
EXTENDS Integers, Sequences, FiniteSets, TLC

\* ------------------------------------------------------------- bounds
MaxText  == 2      \* distinct non-blank texts
MaxDocs  == 2      \* longest documents / metadata / chunks argument
MaxK     == 2      \* largest k of a search request
MaxSaves == 2      \* saves started in one behaviour (each gets an id)
Dim      == 2      \* stands for 768, the width of both default models
BatchSize == 2     \* stands for 50, the batch_size of create_embeddings
MaxEmbed == 5      \* longest texts argument of create_embeddings alone

Texts    == 1..MaxText
Queries  == 0..MaxText
Ks       == 0..MaxK

\* embedding models: the two defaults, and one other HF model
E5Base   == "intfloat/multilingual-e5-base"
E5Large  == "intfloat/multilingual-e5-large"
Gemini   == "models/embedding-001"

\* what the upstream model answers: the width of its vectors
ModelDim(m) == IF m = E5Large THEN Dim + 1 ELSE Dim

\* ------------------------------------------------------------- vectors
RECURSIVE SumSq(_)
SumSq(v) == IF v = <<>> THEN 0 ELSE Head(v) * Head(v) + SumSq(Tail(v))

\* the L2 norm; exact on the vectors of this model
Norm(v) == CHOOSE r \in 0..SumSq(v) : r * r = SumSq(v)

\* faiss.normalize_L2: a zero vector is left as it is
normalize_L2(v) ==
    IF Norm(v) = 0 THEN v ELSE [i \in 1..Len(v) |-> v[i] \div Norm(v)]

RECURSIVE Dot(_, _)
Dot(a, b) == IF a = <<>> THEN 0 ELSE Head(a) * Head(b) + Dot(Tail(a), Tail(b))

\* the provider's answer for one text: not normalised
feature_extraction(m, t) ==
    [i \in 1..ModelDim(m) |-> IF i = (t % ModelDim(m)) + 1 THEN t + 1 ELSE 0]

SeqMap(s, F(_)) == [i \in 1..Len(s) |-> F(s[i])]

\* ------------------------------------------------------------- values
NoIndex == [built |-> FALSE, d |-> 0, vecs |-> <<>>]

\* faiss.IndexFlatIP(d)
IndexFlatIP(d) == [built |-> TRUE, d |-> d, vecs |-> <<>>]

ntotal(ix) == Len(ix.vecs)

\* a metadata entry: RAGSystem stores dicts, FAISSHandler stores the chunk text
MetaDict(t, row) == [kind |-> "dict", name |-> t, row |-> row]
MetaStr(t)       == [kind |-> "str",  name |-> t, row |-> 0]

Files == {"index.faiss", "metadata.pkl", "documents.pkl", "config.pkl",
          "dimension.txt"}

NoConfig == [embedding_model |-> "", dimension |-> 0]

\* what a file holds when it holds nothing readable
EmptyVal(f) ==
    CASE f = "index.faiss"   -> NoIndex
      [] f = "config.pkl"    -> NoConfig
      [] f = "dimension.txt" -> 0
      [] OTHER               -> <<>>

\* a file of the bundle directory: by is the id of the save that wrote it
AbsentFile(f)   == [exists |-> FALSE, by |-> 0, val |-> EmptyVal(f)]
FullFile(id, v) == [exists |-> TRUE,  by |-> id, val |-> v]

\* ------------------------------------------------------------- inputs
\* the documents of a CSV of n rows; CSVs of different sizes differ in
\* their first row too
Corpus(n) == [i \in 1..n |-> ((n + i) % MaxText) + 1]

\* documents arguments, the empty list included
DocLists == {Corpus(n) : n \in 0..MaxDocs}

\* a metadata argument of n dicts for the documents ds
MetaOfLen(ds, n) ==
    [i \in 1..n |-> MetaDict(IF i <= Len(ds) THEN ds[i] ELSE 1, i - 1)]

\* ------------------------------------------------------------- state
VARIABLES
    rag_system,     \* main.py's RAGSystem: index, metadata, documents,
                    \* embedding_model, dimension, client
    faiss_handler,  \* routes.py's FAISSHandler: index, metadata, dimension
    disk,           \* the files of index_path ("faiss_index" for both)
    saves,          \* saves started so far; the next save's id is saves + 1
    last,           \* the last call: what was asked and what it answered
    tasks,          \* SpecConc: the requests on the event loop, where each
                    \* is in build_index and its local variables
    fn              \* SpecEmbed, SpecNorm: a function of the program, the
                    \* arguments it is applied to and, once applied, its result

vars == <<rag_system, faiss_handler, disk, saves, last, tasks, fn>>

\* ------------------------------------------------------------- RAGSystem
\* RAGSystem.__init__
RAG_init(embedding_model, dimension) ==
    [index           |-> NoIndex,
     metadata        |-> <<>>,
     documents       |-> <<>>,
     embedding_model |-> embedding_model,
     dimension       |-> dimension,
     client          |-> embedding_model]

\* texts[i:i + batch_size] of the j-th turn of the loop, i = (j - 1) * batch_size
Batch(texts, j) ==
    SubSeq(texts, (j - 1) * BatchSize + 1,
           IF j * BatchSize < Len(texts) THEN j * BatchSize ELSE Len(texts))

\* embed_loop that skips a batch the provider fails on and goes on
RECURSIVE embed_loop_C11(_, _, _, _, _, _)
embed_loop_C11(self, texts, j, failBatch, all_embeddings, sent) ==
    IF (j - 1) * BatchSize >= Len(texts)
    THEN [ok |-> TRUE, vecs |-> all_embeddings, sent |-> sent]
    ELSE IF j = failBatch
    THEN embed_loop_C11(self, texts, j + 1, failBatch, all_embeddings,
                        Append(sent, Batch(texts, j)))
    ELSE embed_loop_C11(self, texts, j + 1, failBatch,
            all_embeddings \o SeqMap(Batch(texts, j),
                                     LAMBDA t : feature_extraction(self.client, t)),
            Append(sent, Batch(texts, j)))

\* the loop of create_embeddings from its j-th turn on: the provider is
\* called with one batch a turn and answers a row for each of its texts;
\* the call for batch number failBatch raises (0: none does), and the
\* exception leaves the function.  sent are the batches the provider was
\* called with
RECURSIVE embed_loop(_, _, _, _, _, _)
embed_loop(self, texts, j, failBatch, all_embeddings, sent) ==
    IF (j - 1) * BatchSize >= Len(texts)
    THEN [ok |-> TRUE, vecs |-> all_embeddings, sent |-> sent]
    ELSE IF j = failBatch
    THEN [ok |-> FALSE, vecs |-> <<>>, sent |-> Append(sent, Batch(texts, j))]
    ELSE embed_loop(self, texts, j + 1, failBatch,
            all_embeddings \o SeqMap(Batch(texts, j),
                                     LAMBDA t : feature_extraction(self.client, t)),
            Append(sent, Batch(texts, j)))

\* RAGSystem.create_embeddings: up is whether the provider answers; a
\* provider that is down fails the first batch
create_embeddings(self, texts, up) ==
    LET r == embed_loop(self, texts, 1, IF up THEN 0 ELSE 1, <<>>, <<>>)
    IN  [ok |-> r.ok, vecs |-> r.vecs]

\* index.add: faiss asserts the width of the rows
index_add(ix, vecs) ==
    [ok    |-> \A i \in 1..Len(vecs) : Len(vecs[i]) = ix.d,
     index |-> [ix EXCEPT !.vecs = @ \o vecs]]

\* RAGSystem.create_faiss_index
create_faiss_index(self, embeddings) ==
    index_add(IndexFlatIP(self.dimension), SeqMap(embeddings, normalize_L2))

\* the four files RAGSystem writes, in the order save_index writes them
RAG_FILES == <<"index.faiss", "metadata.pkl", "documents.pkl", "config.pkl">>

\* RAG_content with a config.pkl that holds the default width
RAG_content_C6(self, f) ==
    CASE f = "index.faiss"   -> self.index
      [] f = "metadata.pkl"  -> self.metadata
      [] f = "documents.pkl" -> self.documents
      [] f = "config.pkl"    -> [embedding_model |-> self.embedding_model,
                                 dimension       |-> Dim]

RAG_content(self, f) ==
    CASE f = "index.faiss"   -> self.index
      [] f = "metadata.pkl"  -> self.metadata
      [] f = "documents.pkl" -> self.documents
      [] f = "config.pkl"    -> [embedding_model |-> self.embedding_model,
                                 dimension       |-> self.dimension]

Position(order, f) == CHOOSE j \in 1..Len(order) : order[j] = f

\* the writes of one save, in order: the files before failAt are written,
\* opening the file at failAt raises, the files after it are not reached
write_files(d, order, content(_), id, failAt) ==
    [f \in Files |->
        IF \A j \in 1..Len(order) : order[j] # f THEN d[f]
        ELSE IF Position(order, f) < failAt THEN FullFile(id, content(f))
        ELSE d[f]]

\* RAGSystem.save_index: failAt = Len(RAG_FILES) + 1 is the save no write fails
RAG_save_index(self, d, id, failAt) ==
    IF ~self.index.built
    THEN [ok |-> FALSE, disk |-> d]
    ELSE [ok   |-> failAt > Len(RAG_FILES),
          disk |-> write_files(d, RAG_FILES, LAMBDA f : RAG_content(self, f),
                               id, failAt)]

\* the order in which load_index reads the files it found
RAG_READS == <<"config.pkl", "index.faiss", "metadata.pkl", "documents.pkl">>

\* RAG_load_index with an existence check that forgets documents.pkl
RAG_load_index_C3(self, d, bad) ==
    IF ~\A j \in {1, 2, 4} : d[RAG_FILES[j]].exists
    THEN [ok |-> FALSE, self |-> self]
    ELSE IF bad = 1 THEN [ok |-> FALSE, self |-> self]
    ELSE LET s1 == [self EXCEPT
                       !.embedding_model = d["config.pkl"].val.embedding_model,
                       !.dimension       = d["config.pkl"].val.dimension]
         IN  IF bad = 2 THEN [ok |-> FALSE, self |-> s1]
    ELSE LET s2 == [s1 EXCEPT !.index = d["index.faiss"].val]
         IN  IF bad = 3 THEN [ok |-> FALSE, self |-> s2]
    ELSE LET s3 == [s2 EXCEPT !.metadata = d["metadata.pkl"].val]
         IN  IF bad = 4 \/ ~d["documents.pkl"].exists
             THEN [ok |-> FALSE, self |-> s3]
    ELSE [ok |-> TRUE, self |-> [s3 EXCEPT !.documents = d["documents.pkl"].val]]

\* RAGSystem.load_index: the existence check, then four reads, each assigned
\* as soon as it is read; read number bad raises (0: none does) and load
\* returns False
RAG_load_index(self, d, bad) ==
    IF ~\A j \in 1..Len(RAG_FILES) : d[RAG_FILES[j]].exists
    THEN [ok |-> FALSE, self |-> self]
    ELSE IF bad = 1 THEN [ok |-> FALSE, self |-> self]
    ELSE LET s1 == [self EXCEPT
                       !.embedding_model = d["config.pkl"].val.embedding_model,
                       !.dimension       = d["config.pkl"].val.dimension]
         IN  IF bad = 2 THEN [ok |-> FALSE, self |-> s1]
    ELSE LET s2 == [s1 EXCEPT !.index = d["index.faiss"].val]
         IN  IF bad = 3 THEN [ok |-> FALSE, self |-> s2]
    ELSE LET s3 == [s2 EXCEPT !.metadata = d["metadata.pkl"].val]
         IN  IF bad = 4 THEN [ok |-> FALSE, self |-> s3]
    ELSE [ok |-> TRUE, self |-> [s3 EXCEPT !.documents = d["documents.pkl"].val]]

\* a build that stores documents and metadata as soon as they are accepted,
\* before the embeddings and the index are made
RAG_build_index_C28(self, documents, metadata, up) ==
    IF documents = <<>> \/ metadata = <<>>
    THEN [stored |-> FALSE, embedded |-> FALSE, self |-> self]
    ELSE IF Len(documents) # Len(metadata)
    THEN [stored |-> FALSE, embedded |-> FALSE, self |-> self]
    ELSE LET held == [self EXCEPT !.documents = documents,
                                  !.metadata  = metadata]
             e    == create_embeddings(self, documents, up)
         IN  IF ~e.ok THEN [stored |-> FALSE, embedded |-> TRUE, self |-> held]
    ELSE LET x == create_faiss_index(self, e.vecs)
         IN  IF ~x.ok THEN [stored |-> FALSE, embedded |-> TRUE, self |-> held]
    ELSE [stored |-> TRUE, embedded |-> TRUE,
          self   |-> [held EXCEPT !.index = x.index]]

\* RAGSystem.build_index up to its call of save_index: stored is whether the
\* three assignments were reached, embedded whether the provider was called
RAG_build_index(self, documents, metadata, up) ==
    IF documents = <<>> \/ metadata = <<>>
    THEN [stored |-> FALSE, embedded |-> FALSE, self |-> self]
    ELSE IF Len(documents) # Len(metadata)
    THEN [stored |-> FALSE, embedded |-> FALSE, self |-> self]
    ELSE LET e == create_embeddings(self, documents, up)
         IN  IF ~e.ok THEN [stored |-> FALSE, embedded |-> TRUE, self |-> self]
    ELSE LET x == create_faiss_index(self, e.vecs)
         IN  IF ~x.ok THEN [stored |-> FALSE, embedded |-> TRUE, self |-> self]
    ELSE [stored |-> TRUE, embedded |-> TRUE,
          self   |-> [self EXCEPT !.index     = x.index,
                                  !.documents = documents,
                                  !.metadata  = metadata]]

\* ------------------------------------------------------------- search
NoHitScore == -2    \* below every inner product of two unit vectors

Min(a, b) == IF a < b THEN a ELSE b

\* the ordinal (0-based) with the best score, the lowest among equals
Best(ix, q, S) ==
    CHOOSE i \in S : \A j \in S :
        \/ Dot(q, ix.vecs[i + 1]) > Dot(q, ix.vecs[j + 1])
        \/ Dot(q, ix.vecs[i + 1]) = Dot(q, ix.vecs[j + 1]) /\ i <= j

RECURSIVE TopK(_, _, _, _)
TopK(ix, q, S, k) ==
    IF k <= 0 THEN <<>>
    ELSE IF S = {} THEN <<[idx |-> -1, score |-> NoHitScore]>> \o TopK(ix, q, S, k - 1)
    ELSE LET b == Best(ix, q, S)
         IN  <<[idx |-> b, score |-> Dot(q, ix.vecs[b + 1])]>>
             \o TopK(ix, q, S \ {b}, k - 1)

\* an index.search that does not compare the width of x with its own
index_search_C25(ix, q, k) ==
    IF k <= 0 THEN [ok |-> FALSE, hits |-> <<>>]
    ELSE IF Len(q) = ix.d
    THEN [ok |-> TRUE, hits |-> TopK(ix, q, 0..(ntotal(ix) - 1), k)]
    ELSE [ok |-> TRUE,
          hits |-> [i \in 1..k |->
                      IF i <= ntotal(ix) THEN [idx |-> i - 1, score |-> 0]
                      ELSE [idx |-> -1, score |-> NoHitScore]]]

\* faiss index.search(x, k): asserts the width of x and k > 0, answers k
\* hits, the missing ones with label -1
index_search(ix, q, k) ==
    IF Len(q) # ix.d \/ k <= 0
    THEN [ok |-> FALSE, hits |-> <<>>]
    ELSE [ok |-> TRUE, hits |-> TopK(ix, q, 0..(ntotal(ix) - 1), k)]

\* Python's s[idx]: a negative idx counts from the end
PyHas(s, idx) == -Len(s) <= idx /\ idx < Len(s)
PyAt(s, idx)  == IF idx >= 0 THEN s[idx + 1] ELSE s[Len(s) + idx + 1]

NoAnswer(embedded) == [ok |-> FALSE, embedded |-> embedded, results |-> <<>>]

\* RAG_search that asks the provider before it looks at the index
RAG_search_C8(self, query, k, up) ==
    IF ~self.index.built THEN NoAnswer(TRUE)
    ELSE IF ~up THEN NoAnswer(TRUE)
    ELSE LET q == normalize_L2(feature_extraction(self.client, query))
             r == index_search(self.index, q, Min(k, ntotal(self.index)))
             kept == SelectSeq(r.hits,
                        LAMBDA h : h.idx < Len(self.metadata)
                                   /\ h.idx < Len(self.documents))
         IN  IF ~r.ok THEN NoAnswer(TRUE)
             ELSE IF \E i \in 1..Len(kept) :
                        \/ ~PyHas(self.metadata, kept[i].idx)
                        \/ PyAt(self.metadata, kept[i].idx).kind # "dict"
             THEN NoAnswer(TRUE)
             ELSE [ok |-> TRUE, embedded |-> TRUE,
                   results |-> [i \in 1..Len(kept) |->
                       [ord      |-> kept[i].idx,
                        score    |-> kept[i].score,
                        scheme   |-> PyAt(self.metadata, kept[i].idx).name,
                        document |-> PyAt(self.documents, kept[i].idx)]]]

\* RAGSystem.search
RAG_search(self, query, k, up) ==
    IF ~self.index.built THEN NoAnswer(FALSE)
    ELSE IF ~up THEN NoAnswer(TRUE)
    ELSE LET q == normalize_L2(feature_extraction(self.client, query))
             r == index_search(self.index, q, Min(k, ntotal(self.index)))
             kept == SelectSeq(r.hits,
                        LAMBDA h : h.idx < Len(self.metadata)
                                   /\ h.idx < Len(self.documents))
         IN  IF ~r.ok THEN NoAnswer(TRUE)
             ELSE IF \E i \in 1..Len(kept) :
                        \/ ~PyHas(self.metadata, kept[i].idx)
                        \/ PyAt(self.metadata, kept[i].idx).kind # "dict"
             THEN NoAnswer(TRUE)
             ELSE [ok |-> TRUE, embedded |-> TRUE,
                   results |-> [i \in 1..Len(kept) |->
                       [ord      |-> kept[i].idx,
                        score    |-> kept[i].score,
                        scheme   |-> PyAt(self.metadata, kept[i].idx).name,
                        document |-> PyAt(self.documents, kept[i].idx)]]]

\* ------------------------------------------------------------- FAISSHandler
\* FAISSHandler.__init__
FH_init == [index |-> NoIndex, metadata |-> <<>>, dimension |-> 0]

\* FAISSHandler.create_index
FH_create_index(self, dimension) ==
    [self EXCEPT !.dimension = dimension,
                 !.index     = IndexFlatIP(dimension),
                 !.metadata  = <<>>]

\* FAISSHandler.add_embeddings: raises before anything is appended (no
\* index, an array normalize_L2 or index.add refuses), or appends the rows
\* and then the texts
FH_add_embeddings(self, embeddings, texts) ==
    IF ~self.index.built THEN [ok |-> FALSE, self |-> self]
    ELSE IF embeddings = <<>> THEN [ok |-> FALSE, self |-> self]
    ELSE LET x == index_add(self.index, SeqMap(embeddings, normalize_L2))
         IN  IF ~x.ok THEN [ok |-> FALSE, self |-> self]
             ELSE [ok   |-> TRUE,
                   self |-> [self EXCEPT !.index    = x.index,
                                         !.metadata = @ \o SeqMap(texts, MetaStr)]]

\* the three files FAISSHandler writes, in the order save_index writes them
FH_FILES == <<"index.faiss", "metadata.pkl", "dimension.txt">>

FH_content(self, f) ==
    CASE f = "index.faiss"   -> self.index
      [] f = "metadata.pkl"  -> self.metadata
      [] f = "dimension.txt" -> self.dimension

\* FAISSHandler.save_index: it catches nothing, ok FALSE is an exception
FH_save_index(self, d, id, failAt) ==
    IF ~self.index.built
    THEN [ok |-> FALSE, disk |-> d]
    ELSE [ok   |-> failAt > Len(FH_FILES),
          disk |-> write_files(d, FH_FILES, LAMBDA f : FH_content(self, f),
                               id, failAt)]

\* the order in which load_index reads the files it found
FH_READS == <<"dimension.txt", "index.faiss", "metadata.pkl">>

\* FAISSHandler.load_index: read number bad raises (0: none does)
FH_load_index(self, d, bad) ==
    IF ~\A j \in 1..Len(FH_FILES) : d[FH_FILES[j]].exists
    THEN [ok |-> FALSE, self |-> self]
    ELSE IF bad = 1 THEN [ok |-> FALSE, self |-> self]
    ELSE LET s1 == [self EXCEPT !.dimension = d["dimension.txt"].val]
         IN  IF bad = 2 THEN [ok |-> FALSE, self |-> s1]
    ELSE LET s2 == [s1 EXCEPT !.index = d["index.faiss"].val]
         IN  IF bad = 3 THEN [ok |-> FALSE, self |-> s2]
    ELSE [ok |-> TRUE, self |-> [s2 EXCEPT !.metadata = d["metadata.pkl"].val]]

\* FAISSHandler.search: k goes to the index as it is
FH_search(self, query_embedding, k) ==
    IF ~self.index.built THEN NoAnswer(FALSE)
    ELSE LET r == index_search(self.index, normalize_L2(query_embedding), k)
             kept == SelectSeq(r.hits, LAMBDA h : h.idx < Len(self.metadata))
         IN  IF ~r.ok THEN NoAnswer(FALSE)
             ELSE IF \E i \in 1..Len(kept) : ~PyHas(self.metadata, kept[i].idx)
             THEN NoAnswer(FALSE)
             ELSE [ok |-> TRUE, embedded |-> FALSE,
                   results |-> [i \in 1..Len(kept) |->
                       [ord      |-> kept[i].idx,
                        score    |-> kept[i].score,
                        scheme   |-> PyAt(self.metadata, kept[i].idx).name,
                        document |-> PyAt(self.metadata, kept[i].idx).name]]]

\* EmbeddingService.embed_texts / embed_query: one provider call
embed_texts(texts) == SeqMap(texts, LAMBDA t : feature_extraction(Gemini, t))
embed_query(query) == feature_extraction(Gemini, query)

\* ------------------------------------------------------------- calls
\* str.strip() of a query: text 0 is the one that strips to the empty string
IsBlank(query) == query = 0

\* what the last call was and what it answered.  code is the HTTP status of
\* an endpoint (0 for a method); embedded is whether the provider was
\* called and up whether it would answer (recorded for a query); saved is how the call's save ended;
\* n is the count the answer reports
Call(op) ==
    [op |-> op, ok |-> FALSE, code |-> 0, embedded |-> FALSE, up |-> TRUE,
     saved |-> "none", q |-> 0, k |-> 0, force |-> FALSE, n |-> 0,
     results |-> <<>>]

Saved(ok) == IF ok THEN "ok" ELSE "failed"

Tasks == {1, 2}

\* a task's call (kind) and position (pc).  Of a build: its arguments, the
\* index it has made, the id of its save and the file its save writes next
\* (w).  Of a search: its arguments (q, k), the index, metadata and
\* documents it has read, its results, and whether a build was in progress
\* when it was requested (during)
Idle == [kind |-> "none", pc |-> "idle", documents |-> <<>>, metadata |-> <<>>,
         index |-> NoIndex, id |-> 0, w |-> 0, q |-> 0, k |-> 0,
         during |-> FALSE, results |-> <<>>]

\* no function is being applied
NoFn == [op |-> "none", args |-> <<>>, done |-> FALSE, out |-> <<>>]

Init ==
    /\ rag_system    = RAG_init(E5Base, Dim)
    /\ faiss_handler = FH_init
    /\ disk          = [f \in Files |-> AbsentFile(f)]
    /\ saves         = 0
    /\ last          = Call("startup_event")
    /\ tasks         = [t \in Tasks |-> Idle]
    /\ fn            = NoFn

\* a process start: main.py and routes.py construct their objects, then
\* startup_event calls rag_system.load_index()
startup_event(embedding_model, dimension, bad) ==
    LET r == RAG_load_index(RAG_init(embedding_model, dimension), disk, bad)
    IN  /\ rag_system'    = r.self
        /\ faiss_handler' = FH_init
        /\ last'          = [Call("startup_event") EXCEPT !.ok = r.ok]
        /\ UNCHANGED <<disk, saves, tasks, fn>>

\* one file of a complete bundle is deleted from outside the process
unlink(f) ==
    /\ \A j \in 1..Len(RAG_FILES) : disk[RAG_FILES[j]].exists
    /\ disk' = [disk EXCEPT ![f] = AbsentFile(f)]
    /\ last' = [Call("unlink") EXCEPT !.ok = TRUE]
    /\ UNCHANGED <<rag_system, faiss_handler, saves, tasks, fn>>

\* rag_system.load_index()
load_index(bad) ==
    LET r == RAG_load_index(rag_system, disk, bad)
    IN  /\ rag_system' = r.self
        /\ last'       = [Call("load_index") EXCEPT !.ok = r.ok]
        /\ UNCHANGED <<faiss_handler, disk, saves, tasks, fn>>

\* rag_system.save_index()
save_index(failAt) ==
    /\ saves < MaxSaves
    /\ LET r == RAG_save_index(rag_system, disk, saves + 1, failAt)
       IN  /\ disk'  = r.disk
           /\ saves' = saves + 1
           /\ last'  = [Call("save_index") EXCEPT !.ok = r.ok, !.saved = Saved(r.ok)]
    /\ UNCHANGED <<rag_system, faiss_handler, tasks, fn>>

\* rag_system.build_index(documents, metadata): True once the stores are
\* assigned, whatever save_index returned
build_index(documents, metadata, up, failAt) ==
    /\ saves < MaxSaves
    /\ LET b == RAG_build_index(rag_system, documents, metadata, up)
           s == RAG_save_index(b.self, disk, saves + 1, failAt)
       IN  /\ rag_system' = b.self
           /\ disk'       = IF b.stored THEN s.disk ELSE disk
           /\ saves'      = IF b.stored THEN saves + 1 ELSE saves
           /\ last'       = [Call("build_index") EXCEPT
                                !.ok = b.stored, !.embedded = b.embedded,
                                !.saved = IF b.stored THEN Saved(s.ok) ELSE "none",
                                !.n = Len(documents)]
    /\ UNCHANGED <<faiss_handler, tasks, fn>>

\* rag_system.search(query, k)
search(query, k, up) ==
    LET r == RAG_search(rag_system, query, k, up)
    IN  /\ last' = [Call("search") EXCEPT
                       !.ok = r.ok, !.embedded = r.embedded, !.up = up,
                       !.q = query, !.k = k, !.n = Len(r.results),
                       !.results = r.results]
        /\ UNCHANGED <<rag_system, faiss_handler, disk, saves, tasks, fn>>

\* a CSV path that names no file
NoCSV == <<0>>

\* main.py POST /ingest: csv is what process_schemes makes of the file
main_ingest_csv(csv, force, up, failAt) ==
    /\ saves < MaxSaves
    /\ LET b == RAG_build_index(rag_system, csv, MetaOfLen(csv, Len(csv)), up)
           s == RAG_save_index(b.self, disk, saves + 1, failAt)
           A == [Call("main_ingest_csv") EXCEPT !.force = force]
       IN  IF csv = NoCSV
           THEN /\ last' = [A EXCEPT !.code = 404]
                /\ UNCHANGED <<rag_system, disk, saves>>
           ELSE IF ~force /\ rag_system.index.built
           THEN /\ last' = [A EXCEPT !.ok = TRUE, !.code = 200,
                                     !.n = ntotal(rag_system.index)]
                /\ UNCHANGED <<rag_system, disk, saves>>
           ELSE IF csv = <<>>
           THEN /\ last' = [A EXCEPT !.code = 400]
                /\ UNCHANGED <<rag_system, disk, saves>>
           ELSE IF ~b.stored
           THEN /\ last' = [A EXCEPT !.code = 500, !.embedded = b.embedded]
                /\ UNCHANGED <<rag_system, disk, saves>>
           ELSE /\ rag_system' = b.self
                /\ disk'       = s.disk
                /\ saves'      = saves + 1
                /\ last'       = [A EXCEPT !.ok = TRUE, !.code = 200,
                                           !.embedded = TRUE, !.saved = Saved(s.ok),
                                           !.n = Len(csv)]
    /\ UNCHANGED <<faiss_handler, tasks, fn>>

\* main.py POST /query
main_query_schemes(question, k, up) ==
    LET r == RAG_search(rag_system, question, k, up)
        A == [Call("main_query_schemes") EXCEPT !.q = question, !.k = k, !.up = up]
    IN  /\ last' = IF ~rag_system.index.built THEN [A EXCEPT !.code = 404]
                   ELSE IF IsBlank(question)    THEN [A EXCEPT !.code = 400]
                   ELSE IF ~r.ok
                   THEN [A EXCEPT !.code = 500, !.embedded = r.embedded]
                   ELSE [A EXCEPT !.ok = TRUE, !.code = 200,
                                  !.embedded = r.embedded,
                                  !.n = Len(r.results), !.results = r.results]
        /\ UNCHANGED <<rag_system, faiss_handler, disk, saves, tasks, fn>>

\* routes.py POST /ingest: csv is what process_csv makes of the file
routes_ingest_csv(csv, up, failAt) ==
    /\ saves < MaxSaves
    /\ LET embeddings == embed_texts(csv)
           h == IF ~faiss_handler.index.built
                THEN FH_create_index(faiss_handler, Len(embeddings[1]))
                ELSE faiss_handler
           a == FH_add_embeddings(h, embeddings, csv)
           s == FH_save_index(a.self, disk, saves + 1, failAt)
           A == Call("routes_ingest_csv")
       IN  IF csv = NoCSV
           THEN /\ last' = [A EXCEPT !.code = 404]
                /\ UNCHANGED <<faiss_handler, disk, saves>>
           ELSE IF csv = <<>>
           THEN /\ last' = [A EXCEPT !.code = 400]
                /\ UNCHANGED <<faiss_handler, disk, saves>>
           ELSE IF ~up
           THEN /\ last' = [A EXCEPT !.code = 500, !.embedded = TRUE]
                /\ UNCHANGED <<faiss_handler, disk, saves>>
           ELSE IF ~a.ok
           THEN /\ faiss_handler' = h
                /\ last' = [A EXCEPT !.code = 500, !.embedded = TRUE]
                /\ UNCHANGED <<disk, saves>>
           ELSE /\ faiss_handler' = a.self
                /\ disk'  = s.disk
                /\ saves' = saves + 1
                /\ last'  = [A EXCEPT !.ok = s.ok,
                                      !.code = IF s.ok THEN 200 ELSE 500,
                                      !.embedded = TRUE, !.saved = Saved(s.ok),
                                      !.n = IF s.ok THEN ntotal(a.self.index) ELSE 0]
    /\ UNCHANGED <<rag_system, tasks, fn>>

\* routes.py POST /query: an index that is None is first looked for on disk
routes_query_documents(query, k, up, bad) ==
    LET l == IF faiss_handler.index.built
             THEN [ok |-> TRUE, self |-> faiss_handler]
             ELSE FH_load_index(faiss_handler, disk, bad)
        r == FH_search(l.self, embed_query(query), k)
        A == [Call("routes_query_documents") EXCEPT !.q = query, !.k = k, !.up = up]
    IN  /\ faiss_handler' = l.self
        /\ last' = IF ~l.ok THEN [A EXCEPT !.code = 404]
                   ELSE IF ~up \/ ~r.ok
                   THEN [A EXCEPT !.code = 500, !.embedded = TRUE]
                   ELSE [A EXCEPT !.ok = TRUE, !.code = 200, !.embedded = TRUE,
                                  !.n = Len(r.results), !.results = r.results]
        /\ UNCHANGED <<rag_system, disk, saves, tasks, fn>>

\* main.py GET /stats: rag_system.get_index_stats(), 404 without an index
get_stats ==
    /\ last' = IF ~rag_system.index.built
               THEN [Call("get_stats") EXCEPT !.code = 404]
               ELSE [Call("get_stats") EXCEPT
                        !.ok = TRUE, !.code = 200,
                        !.n = ntotal(rag_system.index)]
    /\ UNCHANGED <<rag_system, faiss_handler, disk, saves, tasks, fn>>

\* routes.py GET /status: the size of faiss_handler's index, 0 without one
get_status ==
    /\ last' = [Call("get_status") EXCEPT
                   !.ok = TRUE, !.code = 200,
                   !.n = IF faiss_handler.index.built
                         THEN ntotal(faiss_handler.index) ELSE 0]
    /\ UNCHANGED <<rag_system, faiss_handler, disk, saves, tasks, fn>>

\* ------------------------------------------------------------- requests
\* The POST routes of /ingest and /query in the order they are registered:
\* main.py line 55 includes the router of routes.py before the decorators
\* of lines 145 and 213 run, and the first route that matches answers.
\* required: the fields of the request model that have no default
ROUTES ==
    << [path |-> "/ingest", endpoint |-> "routes_ingest_csv",
        required |-> {"csv_path"}],
       [path |-> "/query", endpoint |-> "routes_query_documents",
        required |-> {"query"}],
       [path |-> "/ingest", endpoint |-> "main_ingest_csv",
        required |-> {}],
       [path |-> "/query", endpoint |-> "main_query_schemes",
        required |-> {"question"}] >>

\* the route that answers a path
dispatch(path) ==
    ROUTES[CHOOSE i \in 1..Len(ROUTES) :
              /\ ROUTES[i].path = path
              /\ \A j \in 1..(i - 1) : ROUTES[j].path # path]

\* a field of the request model: the body's value, or the default
field(body, key, default) ==
    IF key \in DOMAIN body THEN body[key] ELSE default

\* main.py's default csv_path, "updated_data.csv"
DefaultCSV == Corpus(MaxDocs)

\* POST path with a JSON body: the body is validated against the request
\* model of the route that answers (a missing required field is a 422 and
\* the endpoint does not run; fields the model does not name are ignored),
\* then the endpoint runs
post(path, body, up) ==
    LET r == dispatch(path)
    IN  IF ~(r.required \subseteq DOMAIN body)
        THEN /\ last' = [Call(r.endpoint) EXCEPT !.code = 422]
             /\ UNCHANGED <<rag_system, faiss_handler, disk, saves, tasks, fn>>
        ELSE CASE r.endpoint = "routes_ingest_csv" ->
                    routes_ingest_csv(body.csv_path, up, Len(FH_FILES) + 1)
               [] r.endpoint = "routes_query_documents" ->
                    routes_query_documents(body.query, field(body, "k", 5), up, 0)
               [] r.endpoint = "main_ingest_csv" ->
                    main_ingest_csv(field(body, "csv_path", DefaultCSV),
                                    field(body, "force_rebuild", FALSE),
                                    up, Len(RAG_FILES) + 1)
               [] r.endpoint = "main_query_schemes" ->
                    main_query_schemes(body.question, field(body, "k", 5), up)

\* ------------------------------------------------------------- tasks
\* Requests in flight on the event loop.  A handler is a coroutine whose
\* body has no await: once the loop has started it, no other handler runs
\* before it returns.
\* Runs of a loop that may switch tasks between any two statements
Runs_C2(t) == t \in Tasks

\* Runs of a loop that may switch to a search between any two statements
\* of another handler
Runs_C14(t) ==
    \/ tasks[t].kind = "search"
    \/ \A u \in Tasks \ {t} : tasks[u].pc \in {"idle", "pending"}

\* the loop lets task t take a step: no other handler has started
Runs(t) == \A u \in Tasks \ {t} : tasks[u].pc \in {"idle", "pending"}

\* a request arrives whose handler will call
\* rag_system.build_index(documents, metadata)
t_request(t, documents, metadata) ==
    /\ tasks[t].pc = "idle"
    /\ saves < MaxSaves
    /\ tasks' = [tasks EXCEPT ![t] =
                    [Idle EXCEPT !.kind = "build", !.pc = "pending",
                                 !.documents = documents,
                                 !.metadata = metadata, !.id = saves + 1]]
    /\ saves' = saves + 1
    /\ UNCHANGED <<rag_system, faiss_handler, fn, disk, last>>

\* build_index on task t, a step per statement.  Lines 166-170: the
\* arguments are checked
t_call(t) ==
    /\ tasks[t].kind = "build"
    /\ tasks[t].pc = "pending"
    /\ Runs(t)
    /\ IF \/ tasks[t].documents = <<>>
          \/ tasks[t].metadata = <<>>
          \/ Len(tasks[t].documents) # Len(tasks[t].metadata)
       THEN /\ tasks' = [tasks EXCEPT ![t] = Idle]
            /\ last' = Call("build_index")
       ELSE /\ tasks' = [tasks EXCEPT ![t].pc = "embed"]
            /\ UNCHANGED last
    /\ UNCHANGED <<rag_system, faiss_handler, fn, disk, saves>>

\* lines 175-178, the right-hand sides: the embeddings and the new index
t_embed(t, up) ==
    /\ tasks[t].pc = "embed"
    /\ Runs(t)
    /\ LET e == create_embeddings(rag_system, tasks[t].documents, up)
           x == create_faiss_index(rag_system, e.vecs)
       IN  IF e.ok /\ x.ok
           THEN /\ tasks' = [tasks EXCEPT ![t].pc = "index", ![t].index = x.index]
                /\ UNCHANGED last
           ELSE /\ tasks' = [tasks EXCEPT ![t] = Idle]
                /\ last' = [Call("build_index") EXCEPT !.embedded = TRUE]
    /\ UNCHANGED <<rag_system, faiss_handler, fn, disk, saves>>

\* line 178: self.index = ...
t_index(t) ==
    /\ tasks[t].pc = "index"
    /\ Runs(t)
    /\ rag_system' = [rag_system EXCEPT !.index = tasks[t].index]
    /\ tasks' = [tasks EXCEPT ![t].pc = "documents"]
    /\ UNCHANGED <<faiss_handler, fn, disk, saves, last>>

\* line 181: self.documents = documents
t_documents(t) ==
    /\ tasks[t].pc = "documents"
    /\ Runs(t)
    /\ rag_system' = [rag_system EXCEPT !.documents = tasks[t].documents]
    /\ tasks' = [tasks EXCEPT ![t].pc = "metadata"]
    /\ UNCHANGED <<faiss_handler, fn, disk, saves, last>>

\* line 182: self.metadata = metadata
t_metadata(t) ==
    /\ tasks[t].pc = "metadata"
    /\ Runs(t)
    /\ rag_system' = [rag_system EXCEPT !.metadata = tasks[t].metadata]
    /\ tasks' = [tasks EXCEPT ![t].pc = "write", ![t].w = 1]
    /\ UNCHANGED <<faiss_handler, fn, disk, saves, last>>

\* line 185, save_index, lines 209-225: the four files, each written from
\* the field as it is when its write runs; then build_index returns True
t_write(t) ==
    /\ tasks[t].pc = "write"
    /\ Runs(t)
    /\ LET j == tasks[t].w
           f == RAG_FILES[j]
       IN  /\ disk' = [disk EXCEPT ![f] =
                           FullFile(tasks[t].id, RAG_content(rag_system, f))]
           /\ IF j < Len(RAG_FILES)
              THEN /\ tasks' = [tasks EXCEPT ![t].w = j + 1]
                   /\ UNCHANGED last
              ELSE /\ tasks' = [tasks EXCEPT ![t] = Idle]
                   /\ last' = [Call("build_index") EXCEPT
                                  !.ok = TRUE, !.embedded = TRUE, !.saved = "ok",
                                  !.n = Len(tasks[t].documents)]
    /\ UNCHANGED <<rag_system, faiss_handler, fn, saves>>

\* a task is between the first statement of build_index and its return
InBuild(t) == tasks[t].kind = "build" /\ tasks[t].pc \notin {"idle", "pending"}

\* a request arrives whose handler will call rag_system.search(q, k)
s_request(t, q, k) ==
    /\ tasks[t].pc = "idle"
    /\ tasks' = [tasks EXCEPT ![t] =
                    [Idle EXCEPT !.kind = "search", !.pc = "pending",
                                 !.q = q, !.k = k,
                                 !.during = \E u \in Tasks \ {t} : InBuild(u)]]
    /\ UNCHANGED <<rag_system, faiss_handler, fn, disk, saves, last>>

\* search on task t, a step per statement.  Lines 290-291: no index
s_call(t) ==
    /\ tasks[t].kind = "search"
    /\ tasks[t].pc = "pending"
    /\ Runs(t)
    /\ IF ~rag_system.index.built
       THEN /\ tasks' = [tasks EXCEPT ![t] = Idle]
            /\ last' = [Call("search") EXCEPT !.q = tasks[t].q, !.k = tasks[t].k]
       ELSE /\ tasks' = [tasks EXCEPT ![t].pc = "s_embed"]
            /\ UNCHANGED last
    /\ UNCHANGED <<rag_system, faiss_handler, fn, disk, saves>>

\* lines 294-298: the query's embedding
s_embed(t, up) ==
    /\ tasks[t].pc = "s_embed"
    /\ Runs(t)
    /\ IF up
       THEN /\ tasks' = [tasks EXCEPT ![t].pc = "s_index"]
            /\ UNCHANGED last
       ELSE /\ tasks' = [tasks EXCEPT ![t] = Idle]
            /\ last' = [Call("search") EXCEPT
                           !.q = tasks[t].q, !.k = tasks[t].k,
                           !.embedded = TRUE, !.up = FALSE]
    /\ UNCHANGED <<rag_system, faiss_handler, fn, disk, saves>>

\* line 301: self.index is read and searched
s_index(t) ==
    /\ tasks[t].pc = "s_index"
    /\ Runs(t)
    /\ tasks' = [tasks EXCEPT ![t].pc = "s_join", ![t].index = rag_system.index]
    /\ UNCHANGED <<rag_system, faiss_handler, fn, disk, saves, last>>

\* lines 305-319: the hits of the index that was read are joined with
\* self.metadata and self.documents as they are now
s_join(t) ==
    /\ tasks[t].pc = "s_join"
    /\ Runs(t)
    /\ LET r == RAG_search([rag_system EXCEPT !.index = tasks[t].index],
                           tasks[t].q, tasks[t].k, TRUE)
       IN  IF r.ok
           THEN /\ tasks' = [tasks EXCEPT ![t].pc = "s_return",
                                          ![t].metadata = rag_system.metadata,
                                          ![t].documents = rag_system.documents,
                                          ![t].results = r.results]
                /\ UNCHANGED last
           ELSE /\ tasks' = [tasks EXCEPT ![t] = Idle]
                /\ last' = [Call("search") EXCEPT
                               !.q = tasks[t].q, !.k = tasks[t].k,
                               !.embedded = TRUE]
    /\ UNCHANGED <<rag_system, faiss_handler, fn, disk, saves>>

\* lines 321-322: search returns its results
s_return(t) ==
    /\ tasks[t].pc = "s_return"
    /\ Runs(t)
    /\ tasks' = [tasks EXCEPT ![t] = Idle]
    /\ last' = [Call("search") EXCEPT
                   !.ok = TRUE, !.embedded = TRUE,
                   !.q = tasks[t].q, !.k = tasks[t].k,
                   !.n = Len(tasks[t].results), !.results = tasks[t].results]
    /\ UNCHANGED <<rag_system, faiss_handler, fn, disk, saves>>

\* ------------------------------------------------------------- behaviours
\* how the world answers a call that embeds and saves: the provider is down,
\* or it is up and the save's write number failAt raises (none when failAt
\* is past the last)
Faults(order) ==
    {[up |-> FALSE, failAt |-> Len(order) + 1]}
    \cup {[up |-> TRUE, failAt |-> j] : j \in 1..(Len(order) + 1)}

\* how the world answers a query that may load: the provider is down, or it
\* is up and the load's read number bad raises (none when bad is 0)
QueryFaults ==
    {[up |-> FALSE, bad |-> 0]}
    \cup {[up |-> TRUE, bad |-> j] : j \in 0..Len(FH_READS)}

\* the deployments: main.py's RAGSystem(), and one of the larger model
Configs == {<<E5Base, Dim>>, <<E5Large, Dim + 1>>}

CSVs == DocLists \cup {NoCSV}

RagFiles == {RAG_FILES[j] : j \in 1..Len(RAG_FILES)}

\* The stores and the bundle: every call of both owners, with every fault.
\* A query changes no store (routes_query_documents apart, whose load does
\* not read the request), so each is asked with one request here.
Next ==
    \/ \E c \in Configs, bad \in 0..Len(RAG_READS) : startup_event(c[1], c[2], bad)
    \/ \E f \in RagFiles : unlink(f)
    \/ \E bad \in 0..Len(RAG_READS) : load_index(bad)
    \/ \E failAt \in 1..(Len(RAG_FILES) + 1) : save_index(failAt)
    \/ \E ds \in DocLists, n \in 0..MaxDocs, e \in Faults(RAG_FILES) :
            build_index(ds, MetaOfLen(ds, n), e.up, e.failAt)
    \/ \E csv \in CSVs, force \in BOOLEAN, e \in Faults(RAG_FILES) :
            main_ingest_csv(csv, force, e.up, e.failAt)
    \/ \E csv \in CSVs, e \in Faults(FH_FILES) :
            routes_ingest_csv(csv, e.up, e.failAt)
    \/ \E up \in BOOLEAN : search(1, 1, up)
    \/ \E up \in BOOLEAN : main_query_schemes(1, 1, up)
    \/ \E e \in QueryFaults : routes_query_documents(1, 1, e.up, e.bad)

Spec == Init /\ [][Next]_vars

\* The service as it is deployed: the process starts, the endpoints are
\* requested, with every request; the provider may be down, the files are
\* read and written without fault.
NextQuery ==
    \/ \E c \in Configs : startup_event(c[1], c[2], 0)
    \/ \E csv \in CSVs, force \in BOOLEAN, up \in BOOLEAN :
            main_ingest_csv(csv, force, up, Len(RAG_FILES) + 1)
    \/ \E csv \in CSVs, up \in BOOLEAN :
            routes_ingest_csv(csv, up, Len(FH_FILES) + 1)
    \/ \E q \in Queries, k \in Ks, up \in BOOLEAN : search(q, k, up)
    \/ \E q \in Queries, k \in Ks, up \in BOOLEAN : main_query_schemes(q, k, up)
    \/ \E q \in Queries, k \in Ks, up \in BOOLEAN :
            routes_query_documents(q, k, up, 0)
    \/ get_stats
    \/ get_status

SpecQuery == Init /\ [][NextQuery]_vars

\* the bodies test_api.py sends, and query bodies in the words of routes.py
IngestBodies ==
    {[csv_path |-> csv, force_rebuild |-> force] :
        csv \in CSVs, force \in BOOLEAN}

QueryBodies ==
    {[question |-> q, k |-> k] : q \in Queries, k \in Ks}
    \cup {[query |-> q, k |-> k] : q \in Queries, k \in Ks}

\* The service behind its HTTP interface: the process starts and POST
\* requests arrive at /ingest and /query.
NextHttp ==
    \/ \E c \in Configs : startup_event(c[1], c[2], 0)
    \/ \E body \in IngestBodies, up \in BOOLEAN : post("/ingest", body, up)
    \/ \E body \in QueryBodies, up \in BOOLEAN : post("/query", body, up)

SpecHttp == Init /\ [][NextHttp]_vars

\* two requests that arrive in any order, also at the same time, and the
\* statements of build_index and of search as the event loop runs them
NextConc ==
    \/ \E t \in Tasks, ds \in DocLists, n \in 0..MaxDocs :
            t_request(t, ds, MetaOfLen(ds, n))
    \/ \E t \in Tasks : t_call(t)
    \/ \E t \in Tasks, up \in BOOLEAN : t_embed(t, up)
    \/ \E t \in Tasks : t_index(t)
    \/ \E t \in Tasks : t_documents(t)
    \/ \E t \in Tasks : t_metadata(t)
    \/ \E t \in Tasks : t_write(t)
    \/ \E t \in Tasks, q \in Texts, k \in Ks : s_request(t, q, k)
    \/ \E t \in Tasks : s_call(t)
    \/ \E t \in Tasks, up \in BOOLEAN : s_embed(t, up)
    \/ \E t \in Tasks : s_index(t)
    \/ \E t \in Tasks : s_join(t)
    \/ \E t \in Tasks : s_return(t)

SpecConc == Init /\ [][NextConc]_vars
\* ------------------------------------------------------------- properties
RagSaveOps == {"save_index", "build_index", "main_ingest_csv"}
QueryOps   == {"search", "main_query_schemes", "routes_query_documents"}

\* the three counts of RAGSystem agree
RagCounts(self) ==
    /\ ntotal(self.index) = Len(self.documents)
    /\ Len(self.documents) = Len(self.metadata)

\* the two counts of FAISSHandler agree
FhCounts(self) == ntotal(self.index) = Len(self.metadata)

\* C1 (Spec): in every reachable state, after any sequence of build, load,
\* add, save and search calls, failed ones included, the number of vectors
\* of the index equals the number of stored documents and the number of
\* stored metadata entries.
C1_LengthInvariant == RagCounts(rag_system) /\ FhCounts(faiss_handler)

\* C3 (Spec): when one of the four files of the bundle is missing,
\* load_index returns False and leaves index, documents, metadata and
\* config as they were before the call.
C3_PartialBundleRejected ==
    [][(last'.op = "load_index" /\ \E f \in RagFiles : ~disk[f].exists)
          => (~last'.ok /\ rag_system' = rag_system)]_vars

\* a load_index that found exactly one file missing, on an object whose
\* stores were populated, answered False
C3_Witness ==
    /\ last.op = "load_index"
    /\ ~last.ok
    /\ Cardinality({f \in RagFiles : ~disk[f].exists}) = 1
    /\ rag_system.index.built
    /\ Len(rag_system.documents) > 0

\* C4 (Spec): load_index never succeeds with a bundle whose vector count,
\* document count and metadata count are not all equal: after a load that
\* returned True the three counts of the object agree.
C4_LoadRejectsMismatch ==
    (last.op \in {"load_index", "startup_event"} /\ last.ok)
        => RagCounts(rag_system)

\* what a fresh object of the owner that made the call loads from d
LoadsAfter(op, d) ==
    IF op = "routes_ingest_csv"
    THEN FH_load_index(FH_init, d, 0).ok
    ELSE RAG_load_index(RAG_init(E5Base, Dim), d, 0).ok

\* what the files hold, whoever wrote them
Bundle(d) == [f \in Files |-> [exists |-> d[f].exists, val |-> d[f].val]]

\* C5 (Spec): a save that fails after a prefix of its writes leaves on disk
\* either the bundle as it was before the save or a bundle that a later
\* load rejects; never a mix of new and old files that load accepts.
C5_SaveAtomic ==
    [][(last'.saved = "failed")
          => (Bundle(disk') = Bundle(disk) \/ ~LoadsAfter(last'.op, disk'))]_vars

\* config, index, metadata and documents of two objects are the same
SameStores(a, b) ==
    /\ a.index = b.index
    /\ ntotal(a.index) = ntotal(b.index)
    /\ a.documents = b.documents
    /\ a.metadata = b.metadata
    /\ a.embedding_model = b.embedding_model
    /\ a.dimension = b.dimension

\* C6 (Spec): round trip.  After a save_index of a built index that
\* succeeded, load_index on a fresh object of any configuration returns
\* True with the same vectors, documents, metadata and (embedding_model,
\* dimension) as the object that saved; and a process start whose load
\* succeeds right after the save installs those stores.
C6_RoundTrip ==
    [][(last.saved = "ok" /\ last.op \in RagSaveOps)
          => /\ \A c \in Configs :
                   LET r == RAG_load_index(RAG_init(c[1], c[2]), disk, 0)
                   IN  r.ok /\ SameStores(r.self, rag_system)
             /\ (last'.op = "startup_event" /\ last'.ok)
                   => SameStores(rag_system', rag_system)]_vars

\* a process configured for the other model started and loaded a bundle
\* of MaxDocs documents saved under the default one
C6_Witness ==
    /\ last.op = "startup_event"
    /\ last.ok
    /\ rag_system.client = E5Large
    /\ rag_system.embedding_model = E5Base
    /\ rag_system.dimension = Dim
    /\ Len(rag_system.documents) = MaxDocs
    /\ RagCounts(rag_system)
    /\ \A f \in RagFiles : disk[f].by = disk["config.pkl"].by

\* the index the endpoint of the call looks at
OwnerBuilt(op) ==
    IF op \in {"main_ingest_csv", "main_query_schemes", "search"}
    THEN rag_system.index.built
    ELSE faiss_handler.index.built

\* C7 (Spec): with an index present and force_rebuild false, an ingest of
\* an existing CSV changes neither the stores in memory nor the bundle on
\* disk, calls no embedding provider and reports the current count.
C7_IngestNoOpWhenPresent ==
    [][(/\ last'.op \in {"main_ingest_csv", "routes_ingest_csv"}
        /\ OwnerBuilt(last'.op)
        /\ ~last'.force
        /\ last'.code # 404)
          => /\ UNCHANGED <<rag_system, faiss_handler, disk>>
             /\ ~last'.embedded
             /\ last'.ok
             /\ last'.n = IF last'.op = "main_ingest_csv"
                          THEN ntotal(rag_system.index)
                          ELSE ntotal(faiss_handler.index)]_vars
\* C12 (Spec): a build whose embedding step or save step fails never
\* reports success: build_index, and the ingest that calls it, answer
\* success for a build only when the provider answered and save_index
\* wrote the whole bundle.
C12_BuildFailsWhenSaveFails ==
    (last.op \in {"build_index", "main_ingest_csv"} /\ last.ok /\ last.embedded)
        => last.saved = "ok"

\* ------------------------------------------------------------- functions
\* the state in which nothing has run and a function waits to be applied
Waits(f) ==
    /\ rag_system    = RAG_init(E5Base, Dim)
    /\ faiss_handler = FH_init
    /\ disk          = [g \in Files |-> AbsentFile(g)]
    /\ saves         = 0
    /\ last          = Call("startup_event")
    /\ tasks         = [t \in Tasks |-> Idle]
    /\ fn            = f

\* the function returns
Returns(out) ==
    /\ ~fn.done
    /\ fn' = [fn EXCEPT !.done = TRUE, !.out = out]
    /\ UNCHANGED <<rag_system, faiss_handler, disk, saves, last, tasks>>

\* texts arguments of create_embeddings
EmbedTexts == UNION {[1..n -> Texts] : n \in 0..MaxEmbed}

\* create_embeddings alone: every texts argument, on an object of either
\* model, with the provider failing at any batch or at none
InitEmbed ==
    \E texts \in EmbedTexts, failBatch \in 0..MaxEmbed, c \in Configs :
        Waits([op   |-> "create_embeddings",
               args |-> [texts |-> texts, failBatch |-> failBatch, self |-> c],
               done |-> FALSE, out |-> <<>>])

rag_create_embeddings ==
    /\ fn.op = "create_embeddings"
    /\ Returns(embed_loop(RAG_init(fn.args.self[1], fn.args.self[2]),
                          fn.args.texts, 1, fn.args.failBatch, <<>>, <<>>))

SpecEmbed == InitEmbed /\ [][rag_create_embeddings]_vars

\* C11 (SpecEmbed): create_embeddings is all-or-nothing.  The provider is
\* called with batches of at most BatchSize texts, the input cut in order;
\* when the call for any batch fails, a later one included, the whole call
\* fails and returns no embedding; when none fails it returns one vector
\* for each input text, in input order.
C11_EmbeddingsAllOrNothing ==
    (fn.op = "create_embeddings" /\ fn.done) =>
        LET texts == fn.args.texts
            r     == fn.out
            n     == Len(r.sent)
            at(j) == (j - 1) * BatchSize
            model == fn.args.self[1]
        IN  /\ \A j \in 1..n :
                  /\ Len(r.sent[j]) \in 1..BatchSize
                  /\ j < n => Len(r.sent[j]) = BatchSize
                  /\ r.sent[j] = SubSeq(texts, at(j) + 1, at(j) + Len(r.sent[j]))
            /\ fn.args.failBatch \in 1..n => (~r.ok /\ r.vecs = <<>>)
            /\ r.ok <=> (fn.args.failBatch = 0 \/ fn.args.failBatch > n)
            /\ r.ok =>
                  /\ IF n = 0 THEN texts = <<>>
                     ELSE at(n) + Len(r.sent[n]) = Len(texts)
                  /\ Len(r.vecs) = Len(texts)
                  /\ \A i \in 1..Len(texts) :
                        r.vecs[i] = feature_extraction(model, texts[i])

\* the call for the third batch of a list of more than two batches failed,
\* after two batches were answered, and nothing was returned
C11_Witness ==
    /\ fn.op = "create_embeddings"
    /\ fn.done
    /\ Len(fn.args.texts) > 2 * BatchSize
    /\ fn.args.failBatch = 3
    /\ Len(fn.out.sent) = 3
    /\ ~fn.out.ok
    /\ fn.out.vecs = <<>>

\* FAISSHandler objects add_embeddings is called on: no index, a new
\* index, an index of one entry
AddSelves ==
    {FH_init, FH_create_index(FH_init, Dim),
     FH_add_embeddings(FH_create_index(FH_init, Dim), embed_texts(<<1>>), <<1>>).self}

\* embeddings arguments: rows of the index's width and of another
AddRows == {feature_extraction(m, t) : m \in {Gemini, E5Large}, t \in Texts}
AddEmbeddings == UNION {[1..n -> AddRows] : n \in 0..MaxDocs}
AddTexts == UNION {[1..n -> Texts] : n \in 0..MaxDocs}

\* add_embeddings alone, with every pair of arguments
InitAdd ==
    \E self \in AddSelves, embeddings \in AddEmbeddings, texts \in AddTexts :
        /\ Waits([op   |-> "add_embeddings",
                  args |-> [self |-> self, embeddings |-> embeddings,
                            texts |-> texts],
                  done |-> FALSE, out |-> <<>>])

fh_add_embeddings ==
    /\ fn.op = "add_embeddings"
    /\ Returns(FH_add_embeddings(fn.args.self, fn.args.embeddings, fn.args.texts))

SpecAdd == InitAdd /\ [][fh_add_embeddings]_vars

\* C13 (SpecAdd): add_embeddings is atomic over the parallel stores: it
\* takes vectors and texts of equal length only, and when validation fails
\* (the lengths differ, a vector has the wrong width) nothing is appended
\* to the index or to the metadata.
C13_AddAtomic ==
    (fn.op = "add_embeddings" /\ fn.done) =>
        LET self  == fn.args.self
            valid == /\ self.index.built
                     /\ fn.args.embeddings # <<>>
                     /\ Len(fn.args.embeddings) = Len(fn.args.texts)
                     /\ \A i \in 1..Len(fn.args.embeddings) :
                            Len(fn.args.embeddings[i]) = self.index.d
        IN  /\ fn.out.ok <=> valid
            /\ ~valid => fn.out.self = self
            /\ valid =>
                  /\ ntotal(fn.out.self.index)
                        = ntotal(self.index) + Len(fn.args.embeddings)
                  /\ Len(fn.out.self.metadata)
                        = Len(self.metadata) + Len(fn.args.texts)

\* FAISSHandler objects create_index is called on: no index, a new index,
\* an index with entries, of either width
CreateSelves ==
    {FH_init}
    \cup {FH_create_index(FH_init, ModelDim(m)) : m \in {Gemini, E5Large}}
    \cup {FH_add_embeddings(FH_create_index(FH_init, ModelDim(m)),
                            SeqMap(ts, LAMBDA t : feature_extraction(m, t)),
                            ts).self :
              m \in {Gemini, E5Large}, ts \in AddTexts \ {<<>>}}

\* create_index alone, on every object and with every dimension
InitCreate ==
    \E self \in CreateSelves, dimension \in 1..(Dim + 2) :
        Waits([op   |-> "create_index",
               args |-> [self |-> self, dimension |-> dimension],
               done |-> FALSE, out |-> <<>>])

fh_create_index ==
    /\ fn.op = "create_index"
    /\ Returns(FH_create_index(fn.args.self, fn.args.dimension))

SpecCreate == InitCreate /\ [][fh_create_index]_vars

\* C21 (SpecCreate): create_index on an index that is already initialized
\* fails and leaves the existing vectors and metadata unchanged (the
\* method takes no reset argument).
C21_CreateRefusesInitialized ==
    (fn.op = "create_index" /\ fn.done /\ fn.args.self.index.built)
        => /\ fn.out.index = fn.args.self.index
           /\ fn.out.metadata = fn.args.self.metadata

\* ------------------------------------------------------------- normalizer
\* utils.py, SchemeDocumentProcessor.create_documents.  A string is the
\* sequence of its tokens: a space, a double quote, or a word.  A cell of
\* the DataFrame is NaN (null) or a string that is not empty: read_csv makes
\* NaN of an empty cell.  When load_csv's renaming (lines 44-45) leaves two
\* columns of one name, row[name] is a Series of both cells.
Cell(s) == [null |-> FALSE, series |-> FALSE, s |-> s]
NaN     == [null |-> TRUE, series |-> FALSE, s |-> <<>>]
Series  == [null |-> FALSE, series |-> TRUE, s |-> <<"Series">>]

\* pd.notna
notna(c) == ~c.null

\* str(): of NaN the string "nan"
str(c) == IF c.null THEN <<"nan">> ELSE c.s

RECURSIVE lstrip(_)
lstrip(s) == IF s # <<>> /\ Head(s) = " " THEN lstrip(Tail(s)) ELSE s

RECURSIVE rstrip(_)
rstrip(s) ==
    IF s # <<>> /\ s[Len(s)] = " " THEN rstrip(SubSeq(s, 1, Len(s) - 1)) ELSE s

\* s.strip()
strip(s) == rstrip(lstrip(s))

\* s.replace('"', '')
replace(s) == SelectSeq(s, LAMBDA c : c # "\"")

\* the fields of the document, in the order of lines 114-157, and the
\* label of each
DOC_FIELDS ==
    << <<"scheme_name", "Scheme:">>, <<"details", "Description:">>,
       <<"benefits", "Benefits:">>, <<"eligibility", "Eligibility:">>,
       <<"application", "Application Process:">>,
       <<"documents", "Required Documents:">>,
       <<"scheme_category", "Category:">>, <<"level", "Level:">>,
       <<"tags", "Tags:">> >>

\* the fields of a metadata record: its key, the column it is read from
\* and the default of row.get, lines 166-173
META_FIELDS ==
    << <<"scheme_name", "scheme_name", <<"Unknown">> >>,
       <<"sector", "scheme_category", <<"Unknown">> >>,
       <<"state", "state", <<"All", " ", "India">> >>,
       <<"eligibility", "eligibility", <<"Not", " ", "specified">> >>,
       <<"benefits", "benefits", <<"Not", " ", "specified">> >>,
       <<"official_url", "official_url", <<"Not", " ", "available">> >>,
       <<"level", "level", <<"Unknown">> >>,
       <<"tags", "tags", <<>> >> >>

\* lines 114-157: a part for every field whose column is in the row and
\* whose cell is not NaN
RECURSIVE doc_parts(_, _)
doc_parts(row, j) ==
    IF j > Len(DOC_FIELDS) THEN <<>>
    ELSE LET f == DOC_FIELDS[j]
         IN  (IF f[1] \in DOMAIN row /\ notna(row[f[1]])
              THEN << <<f[2], " ">> \o replace(strip(str(row[f[1]]))) >>
              ELSE <<>>)
             \o doc_parts(row, j + 1)

\* " | ".join(parts)
RECURSIVE join(_)
join(parts) ==
    IF parts = <<>> THEN <<>>
    ELSE IF Len(parts) = 1 THEN parts[1]
    ELSE parts[1] \o <<" ", "|", " ">> \o join(Tail(parts))

\* row.get(column, default)
row_get(row, column, default) ==
    IF column \in DOMAIN row THEN row[column] ELSE Cell(default)

\* lines 165-175
metadata_of(row, idx) ==
    [key \in {META_FIELDS[j][1] : j \in 1..Len(META_FIELDS)} |->
        LET f == CHOOSE g \in {META_FIELDS[j] : j \in 1..Len(META_FIELDS)} :
                    g[1] = key
        IN  strip(replace(str(row_get(row, f[2], f[3]))))]
    @@ [row_index |-> idx]

\* `if name in row and pd.notna(row[name])` raises for a Series (its truth
\* value is ambiguous): some field of the document is a duplicated column
raises(row) ==
    \E j \in 1..Len(DOC_FIELDS) :
        DOC_FIELDS[j][1] \in DOMAIN row /\ row[DOC_FIELDS[j][1]].series

\* a row that appends its document and then raises where its metadata is
\* made of a duplicated column
process_row_C27(row, idx) ==
    LET document_text == join(doc_parts(row, 1))
    IN  IF raises(row) \/ strip(document_text) = <<>>
        THEN [documents |-> <<>>, metadata_list |-> <<>>]
        ELSE IF \E c \in DOMAIN row : row[c].series
        THEN [documents |-> <<document_text>>, metadata_list |-> <<>>]
        ELSE [documents     |-> <<document_text>>,
              metadata_list |-> <<metadata_of(row, idx)>>]

\* lines 110-180, one turn of the loop: what the row appends to the two
\* lists.  An exception is raised before line 163 or not at all and the
\* loop continues
process_row(row, idx) ==
    LET document_text == join(doc_parts(row, 1))
    IN  IF raises(row) \/ strip(document_text) = <<>>
        THEN [documents |-> <<>>, metadata_list |-> <<>>]
        ELSE [documents     |-> <<document_text>>,
              metadata_list |-> <<metadata_of(row, idx)>>]

\* create_documents, the rows from number i on (row i has index i - 1)
RECURSIVE create_documents(_, _)
create_documents(df, i) ==
    IF i > Len(df) THEN [documents |-> <<>>, metadata_list |-> <<>>]
    ELSE LET r    == process_row(df[i], i - 1)
             rest == create_documents(df, i + 1)
         IN  [documents     |-> r.documents \o rest.documents,
              metadata_list |-> r.metadata_list \o rest.metadata_list]

\* the columns a CSV may have, and the strings of its cells: blank, quotes
\* only, a padded and quoted word, a word
MaxRows == 2
CsvColumns == {"scheme_name", "eligibility", "state"}
CellStrings == { <<" ">>, <<"\"", "\"">>, <<" ", "a", "\"">>, <<"b">> }
Cells == {NaN} \cup {Cell(s) : s \in CellStrings}

\* the rows of a DataFrame with the columns cols, those in dups duplicated
RowsOf(cols, dups) ==
    {r \in [cols -> Cells \cup {Series}] :
        \A c \in cols : r[c].series <=> c \in dups}

\* the DataFrames of at most MaxRows rows over a subset of the columns
DataFrames ==
    UNION {UNION {[1..n -> RowsOf(cols, dups)] : n \in 0..MaxRows} :
              cols \in SUBSET CsvColumns, dups \in SUBSET CsvColumns}

InitNorm ==
    \E df \in DataFrames :
        Waits([op |-> "create_documents", args |-> [df |-> df],
               done |-> FALSE, out |-> <<>>])

sdp_create_documents ==
    /\ fn.op = "create_documents"
    /\ Returns(create_documents(fn.args.df, 1))

SpecNorm == InitNorm /\ [][sdp_create_documents]_vars

\* the value of a field of the document of a row after trimming and
\* quote-stripping, empty when the column is absent or the cell null
Trimmed(row, column) ==
    IF column \in DOMAIN row /\ notna(row[column]) /\ ~row[column].series
    THEN strip(replace(row[column].s))
    ELSE <<>>

\* some field of the document is present and not empty
HasContent(row) ==
    \E j \in 1..Len(DOC_FIELDS) : Trimmed(row, DOC_FIELDS[j][1]) # <<>>

\* C15 (SpecNorm): the normalizer emits a document for a row if and only
\* if at least one canonical field of the row is present and non-empty
\* after trimming and quote-stripping: the rows with a metadata entry are
\* the rows with content, in order, one document for each.
C15_DocumentIffContent ==
    (fn.op = "create_documents" /\ fn.done) =>
        LET df  == fn.args.df
            out == fn.out
            kept == SelectSeq([i \in 1..Len(df) |-> i],
                              LAMBDA i : HasContent(df[i]))
        IN  /\ Len(out.documents) = Len(kept)
            /\ Len(out.metadata_list) = Len(kept)
            /\ \A n \in 1..Len(kept) :
                  out.metadata_list[n].row_index = kept[n] - 1

\* C27 (SpecNorm): create_documents returns a document list and a
\* metadata list of equal length, entry i of each made of the same input
\* row, also when processing a row raises: that row is in neither list.
C27_ListsParallel ==
    (fn.op = "create_documents" /\ fn.done) =>
        LET df  == fn.args.df
            out == fn.out
        IN  /\ Len(out.documents) = Len(out.metadata_list)
            /\ \A n \in 1..Len(out.metadata_list) :
                  LET idx == out.metadata_list[n].row_index
                  IN  /\ idx \in 0..(Len(df) - 1)
                      /\ ~raises(df[idx + 1])
                      /\ out.documents[n] = join(doc_parts(df[idx + 1], 1))
                      /\ out.metadata_list[n] = metadata_of(df[idx + 1], idx)
                      /\ \A m \in 1..(n - 1) :
                            out.metadata_list[m].row_index < idx
            /\ \A i \in 1..Len(df) :
                  raises(df[i]) =>
                      \A n \in 1..Len(out.metadata_list) :
                          out.metadata_list[n].row_index # i - 1

\* a row with content in a column of its own raised on a duplicated one and
\* is in neither list
C27_Witness ==
    /\ fn.op = "create_documents" /\ fn.done
    /\ Len(fn.args.df) = MaxRows
    /\ raises(fn.args.df[1])
    /\ \E c \in DOMAIN fn.args.df[1] : Trimmed(fn.args.df[1], c) # <<>>
    /\ fn.out.documents = <<>> /\ fn.out.metadata_list = <<>>

\* the sentinel of a metadata field
Sentinel(key) ==
    (CHOOSE g \in {META_FIELDS[j] : j \in 1..Len(META_FIELDS)} : g[1] = key)[3]

\* the column a metadata field is read from
ColumnOf(key) ==
    (CHOOSE g \in {META_FIELDS[j] : j \in 1..Len(META_FIELDS)} : g[1] = key)[2]

\* C16 (SpecNorm): every metadata field of every record the normalizer
\* produces is the present non-empty value of its column or the sentinel
\* of the field; a missing column or a null cell is never carried through
\* as null or as the string "nan".
C16_FieldsValueOrSentinel ==
    (fn.op = "create_documents" /\ fn.done) =>
        \A n \in 1..Len(fn.out.metadata_list) :
            LET m   == fn.out.metadata_list[n]
                row == fn.args.df[m.row_index + 1]
            IN  \A j \in 1..Len(META_FIELDS) :
                    LET key == META_FIELDS[j][1]
                    IN  /\ m[key] # <<"nan">>
                        /\ \/ m[key] = Sentinel(key)
                           \/ /\ Trimmed(row, ColumnOf(key)) # <<>>
                              /\ m[key] = Trimmed(row, ColumnOf(key))

\* ------------------------------------------------------------- chunking
\* utils/csv_processor.py, CSVProcessor.chunk_text.  A text is the sequence
\* of its characters.
estimate_tokens(text) == Len(text) \div 4

\* re.split(r'[.!?]+', text): the pieces between runs of sentence ends, the
\* empty ones included
RECURSIVE re_split(_, _, _)
re_split(text, i, piece) ==
    IF i > Len(text) THEN <<piece>>
    ELSE IF text[i] \in {".", "!", "?"}
    THEN IF i > 1 /\ text[i - 1] \in {".", "!", "?"}
         THEN re_split(text, i + 1, piece)
         ELSE <<piece>> \o re_split(text, i + 1, <<>>)
    ELSE re_split(text, i + 1, Append(piece, text[i]))

\* sentence.split(): the words between runs of spaces
RECURSIVE split(_, _, _)
split(s, i, word) ==
    IF i > Len(s) THEN (IF word = <<>> THEN <<>> ELSE <<word>>)
    ELSE IF s[i] = " "
    THEN (IF word = <<>> THEN <<>> ELSE <<word>>) \o split(s, i + 1, <<>>)
    ELSE split(s, i + 1, Append(word, s[i]))

\* lines 36-46: the loop over the words of a sentence that is too long
RECURSIVE words_loop(_, _, _, _, _)
words_loop(words, i, word_chunk, chunks, max_tokens) ==
    IF i > Len(words) THEN [chunks |-> chunks, word_chunk |-> word_chunk]
    ELSE LET word == words[i]
         IN  IF estimate_tokens(word_chunk \o <<" ">> \o word) > max_tokens
             THEN IF word_chunk # <<>>
                  THEN words_loop(words, i + 1, word,
                                  Append(chunks, strip(word_chunk)), max_tokens)
                  ELSE words_loop(words, i + 1, word_chunk,
                                  Append(chunks,
                                         SubSeq(word, 1, Min(Len(word), max_tokens * 4))),
                                  max_tokens)
             ELSE words_loop(words, i + 1,
                             IF word_chunk # <<>>
                             THEN word_chunk \o <<" ">> \o word ELSE word,
                             chunks, max_tokens)

\* lines 23-49: the loop over the sentences
RECURSIVE sentences_loop(_, _, _, _, _)
sentences_loop(sentences, i, current_chunk, chunks, max_tokens) ==
    IF i > Len(sentences)
    THEN [chunks |-> chunks, current_chunk |-> current_chunk]
    ELSE LET sentence == strip(sentences[i])
         IN  IF sentence = <<>>
             THEN sentences_loop(sentences, i + 1, current_chunk, chunks, max_tokens)
             ELSE IF estimate_tokens(current_chunk \o <<" ">> \o sentence) > max_tokens
             THEN IF current_chunk # <<>>
                  THEN sentences_loop(sentences, i + 1, sentence,
                                      Append(chunks, strip(current_chunk)),
                                      max_tokens)
                  ELSE LET w == words_loop(split(sentence, 1, <<>>), 1, <<>>,
                                           chunks, max_tokens)
                       IN  sentences_loop(sentences, i + 1, w.word_chunk,
                                          w.chunks, max_tokens)
             ELSE sentences_loop(sentences, i + 1,
                                 IF current_chunk # <<>>
                                 THEN current_chunk \o <<" ">> \o sentence
                                 ELSE sentence,
                                 chunks, max_tokens)

\* CSVProcessor(max_tokens).chunk_text(text)
chunk_text(max_tokens, text) ==
    IF estimate_tokens(text) <= max_tokens THEN <<text>>
    ELSE LET r == sentences_loop(re_split(text, 1, <<>>), 1, <<>>, <<>>, max_tokens)
         IN  IF r.current_chunk # <<>>
             THEN Append(r.chunks, strip(r.current_chunk))
             ELSE r.chunks

\* the texts of at most MaxChars characters: a letter, a space, a full stop
MaxChars == 10
MaxTokens == 1
ChunkTexts == UNION {[1..n -> {"a", " ", "."}] : n \in 0..MaxChars}

InitChunk ==
    \E text \in ChunkTexts, max_tokens \in 1..MaxTokens :
        Waits([op   |-> "chunk_text",
               args |-> [max_tokens |-> max_tokens, text |-> text],
               done |-> FALSE, out |-> <<>>])

csv_chunk_text ==
    /\ fn.op = "chunk_text"
    /\ Returns(chunk_text(fn.args.max_tokens, fn.args.text))

SpecChunk == InitChunk /\ [][csv_chunk_text]_vars

\* C23 (SpecChunk): every chunk chunk_text returns is within the token
\* budget: estimate_tokens(c) <= max_tokens for each chunk c, for every
\* text and every max_tokens, the chunks that start with a sentence or a
\* word that is itself over the budget included.
C23_ChunksWithinBudget ==
    (fn.op = "chunk_text" /\ fn.done) =>
        \A i \in 1..Len(fn.out) :
            estimate_tokens(fn.out[i]) <= fn.args.max_tokens

\* ------------------------------------------------------------- filtering
\* routes.py, _filter_schemes.  A DataFrame is its columns and its rows; a
\* string argument that is None or empty is the empty sequence (both are
\* false in `if state:`).
\* s.lower()
lower(s) ==
    [i \in 1..Len(s) |-> CASE s[i] = "A" -> "a" [] s[i] = "B" -> "b" [] OTHER -> s[i]]

\* norm of a cell, line 50: "" for NaN
norm(c) == IF c.null THEN <<>> ELSE lower(strip(c.s))

\* Python's `sub in s` on strings
contains(sub, s) ==
    \E i \in 0..(Len(s) - Len(sub)) : SubSeq(s, i + 1, i + Len(sub)) = sub

\* DataFrame.head(n): the first n rows, all but the last -n when n < 0
head(rows, n) ==
    IF n >= 0 THEN SubSeq(rows, 1, Min(n, Len(rows)))
    ELSE SubSeq(rows, 1, IF Len(rows) + n > 0 THEN Len(rows) + n ELSE 0)

\* the rows whose cell of a column contains the normalised word (all rows
\* when the filter is not given or the DataFrame has no such column)
where(df, rows, column, word) ==
    IF word = <<>> \/ column \notin df.columns THEN rows
    ELSE SelectSeq(rows, LAMBDA r : contains(lower(strip(word)), norm(r[column])))

\* _filter_schemes; ok FALSE: it raises (line 54, filtered.get("state") is
\* None when the DataFrame has no state column)
filter_schemes(df, name_query, state, sector, income_level, tags, limit) ==
    IF state # <<>> /\ "state" \notin df.columns
    THEN [ok |-> FALSE, rows |-> <<>>, matched |-> <<>>]
    ELSE LET f1 == where(df, df.rows, "state", state)
             f2 == where(df, f1, "schemeCategory", sector)
             f3 == where(df, f2, "eligibility", income_level)
             f4 == IF tags = <<>> \/ "tags" \notin df.columns THEN f3
                   ELSE SelectSeq(f3, LAMBDA r :
                            \E j \in 1..Len(tags) :
                                contains(lower(strip(tags[j])), norm(r.tags)))
             f5 == IF name_query = <<>> THEN f4
                   ELSE SelectSeq(f4, LAMBDA r :
                            LET q == lower(strip(name_query))
                            IN  \/ contains(q, norm(r.scheme_name))
                                \/ contains(q, norm(r.slug))
                                \/ contains(q, norm(r.details)))
         IN  [ok      |-> TRUE,
              matched |-> f5,
              rows    |-> IF f5 = <<>> THEN head(df.rows, limit)
                          ELSE head(f5, limit)]

\* the columns of the schemes CSV, and DataFrames that lack one
SCHEME_COLUMNS ==
    {"state", "schemeCategory", "eligibility", "tags",
     "scheme_name", "slug", "details"}

FilterColumns ==
    {SCHEME_COLUMNS, SCHEME_COLUMNS \ {"state"}, SCHEME_COLUMNS \ {"schemeCategory"}}

\* a row of the columns cols with the given state and scheme_name
FilterRow(cols, state, scheme_name) ==
    [c \in cols |->
        CASE c = "state"          -> state
          [] c = "scheme_name"    -> scheme_name
          [] c = "schemeCategory" -> Cell(<<"a">>)
          [] c = "tags"           -> Cell(<<"a", "b">>)
          [] OTHER                -> NaN]

FilterFrames ==
    UNION {{[columns |-> cols, rows |-> rows] :
               rows \in UNION {[1..n -> {FilterRow(cols, st, nm) :
                                            st \in {NaN, Cell(<<"a">>), Cell(<<"A", "b">>)},
                                            nm \in {Cell(<<"a">>), Cell(<<"b">>)}}] :
                                  n \in 0..MaxRows}} :
              cols \in FilterColumns}

\* a request's limit: ChatRequest.limit is an int without bounds
MaxLimit == 2
Limits == (-1)..MaxLimit

InitFilter ==
    \E df \in FilterFrames,
       state \in {<<>>, <<"a">>, <<" ", "B">>},
       name_query \in {<<>>, <<"b">>},
       sector \in {<<>>, <<"a">>},
       tags \in {<<>>, << <<"b">> >>},
       limit \in Limits :
        Waits([op   |-> "_filter_schemes",
               args |-> [df |-> df, name_query |-> name_query, state |-> state,
                         sector |-> sector, income_level |-> <<>>,
                         tags |-> tags, limit |-> limit],
               done |-> FALSE, out |-> <<>>])

routes_filter_schemes ==
    /\ fn.op = "_filter_schemes"
    /\ Returns(filter_schemes(fn.args.df, fn.args.name_query, fn.args.state,
                              fn.args.sector, fn.args.income_level,
                              fn.args.tags, fn.args.limit))

SpecFilter == InitFilter /\ [][routes_filter_schemes]_vars

\* C26 (SpecFilter): _filter_schemes returns at most limit rows; when the
\* filters together match no row it returns the first limit rows of the
\* unfiltered dataset, so that its result is not empty whenever the
\* dataset is not empty and limit >= 1.
C26_FilterLimitAndFallback ==
    (fn.op = "_filter_schemes" /\ fn.done /\ fn.out.ok) =>
        LET rows == fn.args.df.rows
            limit == fn.args.limit
            page == IF limit > 0 THEN limit ELSE 0
        IN  /\ Len(fn.out.rows) <= page
            /\ fn.out.matched = <<>>
                  => fn.out.rows = SubSeq(rows, 1, Min(page, Len(rows)))
            /\ (rows # <<>> /\ limit >= 1) => fn.out.rows # <<>>

\* the stores are those one build_index call of documents ds assigns
FromOneBuild(self) ==
    \E ds \in DocLists :
        /\ self.documents = ds
        /\ self.metadata = MetaOfLen(ds, Len(ds))
        /\ self.index =
              IF ds = <<>> THEN NoIndex
              ELSE create_faiss_index(self, create_embeddings(self, ds, TRUE).vecs).index

Snapshot(t) ==
    [rag_system EXCEPT !.index = tasks[t].index,
                       !.metadata = tasks[t].metadata,
                       !.documents = tasks[t].documents]

\* C14 (SpecConc): a search requested while a build is in progress, or
\* before or after one, observes a consistent snapshot: the index, the
\* documents and the metadata it has read when it returns are those that
\* one build_index call assigned, never the index of one build joined with
\* the documents or metadata of another, and its results are the hits of
\* that index joined with that build's documents and metadata.
C14_SearchSnapshot ==
    \A t \in Tasks :
        tasks[t].pc = "s_return"
            => /\ FromOneBuild(Snapshot(t))
               /\ tasks[t].results
                     = RAG_search(Snapshot(t), tasks[t].q, tasks[t].k, TRUE).results
               /\ \A i \in 1..Len(tasks[t].results) :
                     LET h == tasks[t].results[i]
                     IN  /\ h.ord \in 0..(Len(tasks[t].documents) - 1)
                         /\ h.document = tasks[t].documents[h.ord + 1]
                         /\ h.scheme = tasks[t].metadata[h.ord + 1].name

\* a search that was requested while a build was between its assignments
\* has read the index and the stores of that build, MaxDocs documents, and
\* is about to return MaxK results, while the other task has a second
\* build waiting
C14_Witness ==
    \E t \in Tasks, u \in Tasks :
        /\ tasks[t].pc = "s_return"
        /\ tasks[t].during
        /\ ntotal(tasks[t].index) = MaxDocs
        /\ Len(tasks[t].results) = MaxK
        /\ tasks[u].kind = "build" /\ tasks[u].pc = "pending"

\* C18 (Spec): load_index fails closed: whenever load_index returns
\* failure, for a missing file or for a file that cannot be read after the
\* existence check has passed, index, documents, metadata,
\* embedding_model and dimension are what they were before the call.
C18_LoadFailsClosed ==
    [][\A bad \in 0..Len(RAG_READS) :
          (load_index(bad) /\ ~last'.ok) => rag_system' = rag_system]_vars

\* the stores of a RAGSystem and the bundle hold the documents ds with the
\* metadata md, and nothing else
RagHolds(self, d, ds, md) ==
    /\ self.documents = ds
    /\ self.metadata = md
    /\ self.index = create_faiss_index(self, create_embeddings(self, ds, TRUE).vecs).index
    /\ \A j \in 1..Len(RAG_FILES) :
          /\ d[RAG_FILES[j]].exists
          /\ d[RAG_FILES[j]].val = RAG_content(self, RAG_FILES[j])

\* the stores of a FAISSHandler and the bundle hold the chunks ds, and
\* nothing else
FhHolds(self, d, ds) ==
    /\ self.metadata = SeqMap(ds, MetaStr)
    /\ self.index.vecs = SeqMap(embed_texts(ds), normalize_L2)
    /\ \A j \in 1..Len(FH_FILES) :
          /\ d[FH_FILES[j]].exists
          /\ d[FH_FILES[j]].val = FH_content(self, FH_FILES[j])

\* C22 (Spec): a rebuild replaces the index wholesale.  After a build or
\* an ingest of N documents that embedded, stored and saved them with
\* success, the index in memory and the bundle on disk hold exactly those
\* N entries in input order, whatever the index held before: nothing of an
\* earlier build is retained and the same input ingested twice is not
\* duplicated.
C22_RebuildReplaces ==
    [][/\ \A ds \in DocLists, n \in 0..MaxDocs, e \in Faults(RAG_FILES) :
            (/\ build_index(ds, MetaOfLen(ds, n), e.up, e.failAt)
             /\ last'.ok /\ last'.saved = "ok")
                => RagHolds(rag_system', disk', ds, MetaOfLen(ds, n))
       /\ \A csv \in CSVs, force \in BOOLEAN, e \in Faults(RAG_FILES) :
            (/\ main_ingest_csv(csv, force, e.up, e.failAt)
             /\ last'.ok /\ last'.saved = "ok")
                => RagHolds(rag_system', disk', csv, MetaOfLen(csv, Len(csv)))
       /\ \A csv \in CSVs, e \in Faults(FH_FILES) :
            (/\ routes_ingest_csv(csv, e.up, e.failAt)
             /\ last'.ok /\ last'.saved = "ok")
                => FhHolds(faiss_handler', disk', csv)]_vars

\* C28 (Spec): whenever build_index returns False (empty input, documents
\* and metadata of different lengths, the embedding failed, the index could
\* not be made), the index, documents and metadata in memory and the bundle
\* on disk are exactly what they were before the call.
C28_FailedBuildChangesNothing ==
    [][(last'.op = "build_index" /\ ~last'.ok)
          => (rag_system' = rag_system /\ disk' = disk)]_vars

\* a build of documents failed after it had asked for their embeddings, over
\* an index built and saved before
C28_Witness ==
    /\ last.op = "build_index" /\ ~last.ok /\ last.embedded /\ last.n > 0
    /\ rag_system.index.built /\ rag_system.documents # <<>>
    /\ \A j \in 1..Len(RAG_FILES) : disk[RAG_FILES[j]].exists

\* C29 (SpecQuery): after any sequence of saves of the two owners of the
\* directory "faiss_index", RAGSystem.save_index and FAISSHandler.save_index,
\* the four files RAGSystem.load_index reads were written by one and the
\* same save, so that a load never combines files of different saves.
C29_BundleFromOneSave ==
    (\A f \in RagFiles : disk[f].exists)
        => \A f, g \in RagFiles : disk[f].by = disk[g].by

\* the files of d are a bundle one FAISSHandler.save_index wrote
FhBundle(d) ==
    \A j \in 1..Len(FH_FILES) :
        d[FH_FILES[j]].exists /\ d[FH_FILES[j]].by = d[FH_FILES[1]].by

\* sequence a is the beginning of sequence b
IsPrefix(a, b) == Len(a) <= Len(b) /\ SubSeq(b, 1, Len(a)) = a

\* C30 (SpecQuery): the bundle the handler persists at the end of a
\* successful POST /ingest of the router holds every entry of the bundle
\* that was persisted before it, followed by the chunks just ingested, also
\* when the process restarted in between and the index in memory is None
\* as the ingest starts.
C30_IngestKeepsPersisted ==
    [][(last'.op = "routes_ingest_csv" /\ last'.ok /\ FhBundle(disk))
          => /\ FhBundle(disk')
             /\ IsPrefix(disk["metadata.pkl"].val, disk'["metadata.pkl"].val)
             /\ IsPrefix(disk["index.faiss"].val.vecs,
                         disk'["index.faiss"].val.vecs)
             /\ Len(disk'["metadata.pkl"].val)
                    > Len(disk["metadata.pkl"].val)]_vars

\* the stats and status requests
StatsOps == {"get_stats", "get_status"}

\* C24 (SpecQuery): the index and its stores are mutated only by build and
\* insert operations: a search or query request and a stats or status
\* request leave index, documents, metadata and config of both owners in
\* memory as they were.
C24_QueriesLeaveStores ==
    [][(last'.op \in QueryOps \cup StatsOps)
          => (rag_system' = rag_system /\ faiss_handler' = faiss_handler)]_vars

\* the endpoints of POST /ingest
IngestOps == {"routes_ingest_csv", "main_ingest_csv"}

\* C17 (SpecHttp): after a POST /ingest with {csv_path, force_rebuild:
\* true} has reported success, a following POST /query with body
\* {question, k}, a question that is not empty and k at least 1, is
\* answered successfully while the provider is up, with total_matches the
\* number of returned matches and at most k.
C17_IngestThenQuery ==
    [][\A q \in Texts, k \in 1..MaxK :
          (/\ last.op \in IngestOps
           /\ last.ok
           /\ last.op = "main_ingest_csv" => last.force
           /\ post("/query", [question |-> q, k |-> k], TRUE))
          => /\ last'.ok
             /\ last'.code = 200
             /\ last'.n = Len(last'.results)
             /\ last'.n <= k]_vars

\* the stores of the object that answers the call
OwnerCount(op) ==
    IF op = "routes_query_documents"
    THEN ntotal(faiss_handler.index)
    ELSE ntotal(rag_system.index)

\* a search of the call's owner would ask for a vector of the index's width
WidthAgrees(op) ==
    IF op = "routes_query_documents"
    THEN ModelDim(Gemini) = faiss_handler.index.d
    ELSE ModelDim(rag_system.client) = rag_system.index.d

\* the owner's index is not empty, its counts agree and its metadata
\* entries are of the kind the owner stores
OwnerConsistent(op) ==
    IF op = "routes_query_documents"
    THEN /\ ntotal(faiss_handler.index) > 0
         /\ FhCounts(faiss_handler)
         /\ \A i \in 1..Len(faiss_handler.metadata) :
                faiss_handler.metadata[i].kind = "str"
    ELSE /\ ntotal(rag_system.index) > 0
         /\ RagCounts(rag_system)
         /\ \A i \in 1..Len(rag_system.metadata) :
                rag_system.metadata[i].kind = "dict"

C9_Clamping ==
    (/\ last.op \in QueryOps
     /\ last.k >= 1
     /\ last.up
     /\ ~IsBlank(last.q)
     /\ OwnerConsistent(last.op)
     /\ WidthAgrees(last.op))
        => (last.ok /\ last.n = Min(last.k, OwnerCount(last.op)))

\* the calls RAGSystem.search answers
RagQueryOps == {"search", "main_query_schemes"}

\* C19 (SpecQuery): in search, k is clamped to [1, total_count] before the
\* index is queried: on a non-empty consistent index, a search with
\* k <= 0 (of a non-blank query, with the provider up) behaves as k = 1: it
\* does not fail and returns exactly one result.
C19_KClampedFromBelow ==
    (/\ last.op \in RagQueryOps
     /\ last.k <= 0
     /\ last.up
     /\ ~IsBlank(last.q)
     /\ OwnerConsistent(last.op)
     /\ WidthAgrees(last.op)
     /\ OwnerCount(last.op) >= 1)
        => (last.ok /\ last.n = 1)

\* the ordinals that are in range for the parallel stores of the owner
OwnerOrdinals(op) ==
    IF op = "routes_query_documents"
    THEN 0..(Len(faiss_handler.metadata) - 1)
    ELSE 0..(Min(Len(rag_system.metadata), Len(rag_system.documents)) - 1)

\* C20 (SpecQuery): when the hits of the index are joined with the
\* parallel stores, every ordinal outside [0, len(metadata)) and outside
\* [0, len(documents)) is skipped, the negative ordinal the index answers
\* when k exceeds the number of stored vectors included: no result of an
\* answered search is built from an ordinal outside that range.
C20_OrdinalsInRange ==
    (last.op \in QueryOps /\ last.ok)
        => \A i \in 1..Len(last.results) :
              last.results[i].ord \in OwnerOrdinals(last.op)

C10_BlankQueryRejected ==
    (last.op \in QueryOps /\ IsBlank(last.q))
        => (~last.ok /\ ~last.embedded)
====
